---- MODULE Spec2Model ----
(***************************************************************************)
(* Model of src/app.py: a FastAPI CRUD service over two MySQL tables       *)
(* (customers, products) reached through a mysql.connector connection pool *)
(* of five connections.                                                    *)
(*                                                                         *)
(* A request is a process: the dependency get_db_connection borrows a      *)
(* connection, the handler executes one statement (and commits a write),   *)
(* the dependency's finally block gives the connection back.  The MySQL    *)
(* server is the environment: a table is a function from the stored        *)
(* identifiers to rows, a write is pending on its connection until the     *)
(* commit, and a connection may be lost at any moment.                     *)
(*                                                                         *)
(* A column value is an option: None is <<>> (Python None, SQL NULL) and a *)
(* value v is <<v>>.  A price is counted in thousandths, so that the two   *)
(* decimals of the DECIMAL(10, 2) column are a real conversion.            *)
(***************************************************************************)
EXTENDS Integers, Sequences, FiniteSets, TLC

VARIABLES db, nextId, pool, connected, tx, req, drops, process

vars == <<db, nextId, pool, connected, tx, req, drops, process>>

\* ------------------------------------------------------------------ bounds
\* AUTO_INCREMENT values a table hands out before the model stops inserting.
MaxId == 2
\* Connections the environment may drop.
MaxDrops == 2
\* Fields one Update supplies under SpecData.
MaxSupplied == 2

\* ------------------------------------------------------- program constants
pool_size == 5

None == <<>>
Some(v) == <<v>>

Entities == {"customers", "products"}
Ops == {"list", "create", "get", "update", "delete"}

\* The columns of each table after its identifier, in declaration order
\* (also the field order of the pydantic models).
Fields(ent) ==
    IF ent = "customers"
    THEN <<"first_name", "last_name", "email", "address", "phone">>
    ELSE <<"name", "price", "description", "stock_quantity">>

FieldSet(ent) == {Fields(ent)[i] : i \in 1..Len(Fields(ent))}

IdColumn(ent) == IF ent = "customers" THEN "customer_id" ELSE "product_id"

\* Columns declared NOT NULL.
NotNull(ent) ==
    IF ent = "customers"
    THEN {"first_name", "last_name", "email"}
    ELSE {"name", "price", "stock_quantity"}

\* The column declared UNIQUE.
UniqueField(ent) == IF ent = "customers" THEN "email" ELSE "name"

\* Fields the Create models declare with a default of None.
Optional(ent) ==
    IF ent = "customers" THEN {"address", "phone"} ELSE {"description"}

\* A pool that holds one connection more than its size.
Conns_oversized == 1..(pool_size + 1)
\* The pool's connections: MySQLConnectionPool opens pool_size of them.
Conns == 1..pool_size
\* One request more than the pool has connections can be in flight.
Reqs == 1..(pool_size + 1)
Ids == 1..MaxId

\* ------------------------------------------------------------ input values
\* The values a caller may send for a field (None aside); an address is
\* only ever sent as None.
FieldValues(ent, f) ==
    CASE f = "first_name" -> {Some("A")}
      [] f = "last_name" -> {Some("B")}
      [] f = "email" -> {Some("a@b.com"), Some("c@d.com")}
      [] f = "address" -> {}
      [] f = "phone" -> {Some("123")}
      [] f = "name" -> {Some("pen"), Some("ink")}
      [] f = "price" -> {Some(1990), Some(1995)}
      [] f = "description" -> {Some("d")}
      [] f = "stock_quantity" -> {Some(7)}

\* Customer / Product: every field present, an optional one possibly None.
CreateInputs(ent) ==
    IF ent = "customers"
    THEN [first_name : FieldValues(ent, "first_name"),
          last_name : FieldValues(ent, "last_name"),
          email : FieldValues(ent, "email"),
          address : FieldValues(ent, "address") \cup {None},
          phone : FieldValues(ent, "phone") \cup {None}]
    ELSE [name : FieldValues(ent, "name"),
          price : FieldValues(ent, "price"),
          description : FieldValues(ent, "description") \cup {None},
          stock_quantity : FieldValues(ent, "stock_quantity")]

\* CustomerUpdate / ProductUpdate with every field set, to a value or to None.
FullUpdates(ent) ==
    IF ent = "customers"
    THEN [first_name : FieldValues(ent, "first_name") \cup {None},
          last_name : FieldValues(ent, "last_name") \cup {None},
          email : FieldValues(ent, "email") \cup {None},
          address : FieldValues(ent, "address") \cup {None},
          phone : FieldValues(ent, "phone") \cup {None}]
    ELSE [name : FieldValues(ent, "name") \cup {None},
          price : FieldValues(ent, "price") \cup {None},
          description : FieldValues(ent, "description") \cup {None},
          stock_quantity : FieldValues(ent, "stock_quantity") \cup {None}]

\* CustomerUpdate / ProductUpdate as model_dump(exclude_unset=True) returns
\* it: the fields the caller set (at most n of them), each to a value or
\* explicitly to None.
UpdateInputs(ent, n) ==
    {[f \in S |-> d[f]] :
        d \in FullUpdates(ent),
        S \in {T \in SUBSET FieldSet(ent) : Cardinality(T) <= n}}

\* ------------------------------------------------------------ MySQL server
\* A DECIMAL(10, 2) that drops the third decimal.
ToDecimal2_truncating(p) == (p \div 10) * 10

\* DECIMAL(10, 2): a value in thousandths rounded half away from zero to
\* hundredths (kept in thousandths).
ToDecimal2(p) ==
    IF p >= 0 THEN ((p + 5) \div 10) * 10 ELSE 0 - (((0 - p) + 5) \div 10) * 10

\* The value a column stores for a bound parameter.
ColumnValue(ent, col, v) ==
    IF ent = "products" /\ col = "price" /\ v # None
    THEN Some(ToDecimal2(v[1]))
    ELSE v

NoTx == [kind |-> "none"]

\* A server whose writes take no lock.
Locked_never(c, ent, id, uvals) == FALSE

\* Another connection's uncommitted write holds the row or the unique value.
Locked(c, ent, id, uvals) ==
    \E c2 \in Conns \ {c} :
        /\ tx[c2].kind # "none"
        /\ tx[c2].ent = ent
        /\ (tx[c2].id = id \/ tx[c2].uvals \cap uvals # {})

\* A UNIQUE index that is not there.
Duplicate_unindexed(table, ent, id, u) == FALSE

\* Some other stored row carries the unique value u.
Duplicate(table, ent, id, u) ==
    \E j \in DOMAIN table : j # id /\ table[j][UniqueField(ent)] = u

Index(seq, x) == CHOOSE i \in 1..Len(seq) : seq[i] = x
Range(seq) == {seq[i] : i \in 1..Len(seq)}

\* An AUTO_INCREMENT counter that does not advance.
AutoIncrement_stuck(n) == n

\* AUTO_INCREMENT: the value after n; an INSERT uses one up even when it
\* fails.
AutoIncrement(n) == n + 1

\* An INSERT that takes the lowest identifier no stored row carries.
Insert_reusing(table, ent, id, q) ==
    LET free == CHOOSE i \in 1..id : i \notin DOMAIN table /\ \A j \in 1..(i - 1) : j \in DOMAIN table
        row == [f \in FieldSet(ent) |->
                   ColumnValue(ent, f, q.params[Index(q.columns, f)])]
    IN  IF \E f \in NotNull(ent) : row[f] = None
        THEN [error |-> "1048 Column cannot be null", rowcount |-> 0 - 1,
              lastrowid |-> 0, write |-> NoTx]
        ELSE IF Duplicate(table, ent, free, row[UniqueField(ent)])
        THEN [error |-> "1062 Duplicate entry", rowcount |-> 0 - 1,
              lastrowid |-> 0, write |-> NoTx]
        ELSE [error |-> "", rowcount |-> 1, lastrowid |-> free,
              write |-> [kind |-> "put", ent |-> ent, id |-> free, row |-> row,
                         uvals |-> {row[UniqueField(ent)]}]]

\* INSERT INTO <table> (<columns>) VALUES (<params>)
Insert(table, ent, id, q) ==
    LET row == [f \in FieldSet(ent) |->
                   ColumnValue(ent, f, q.params[Index(q.columns, f)])]
    IN  IF \E f \in NotNull(ent) : row[f] = None
        THEN [error |-> "1048 Column cannot be null", rowcount |-> 0 - 1,
              lastrowid |-> 0, write |-> NoTx]
        ELSE IF Duplicate(table, ent, id, row[UniqueField(ent)])
        THEN [error |-> "1062 Duplicate entry", rowcount |-> 0 - 1,
              lastrowid |-> 0, write |-> NoTx]
        ELSE [error |-> "", rowcount |-> 1, lastrowid |-> id,
              write |-> [kind |-> "put", ent |-> ent, id |-> id, row |-> row,
                         uvals |-> {row[UniqueField(ent)]}]]

\* An UPDATE that clears the optional columns it is not given.
Update_clearing(table, ent, q) ==
    LET id == q.params[Len(q.params)][1]
        old == table[id]
        new == [f \in FieldSet(ent) |->
                   IF f \in Range(q.columns)
                   THEN ColumnValue(ent, f, q.params[Index(q.columns, f)])
                   ELSE IF f \in Optional(ent) THEN None ELSE old[f]]
    IN  IF id \notin DOMAIN table
        THEN [error |-> "", rowcount |-> 0, lastrowid |-> 0, write |-> NoTx]
        ELSE IF \E f \in NotNull(ent) : new[f] = None
        THEN [error |-> "1048 Column cannot be null", rowcount |-> 0 - 1,
              lastrowid |-> 0, write |-> NoTx]
        ELSE IF Duplicate(table, ent, id, new[UniqueField(ent)])
        THEN [error |-> "1062 Duplicate entry", rowcount |-> 0 - 1,
              lastrowid |-> 0, write |-> NoTx]
        ELSE [error |-> "", rowcount |-> IF new = old THEN 0 ELSE 1,
              lastrowid |-> 0,
              write |-> [kind |-> "put", ent |-> ent, id |-> id, row |-> new,
                         uvals |-> {old[UniqueField(ent)], new[UniqueField(ent)]}]]

\* An UPDATE outside strict SQL mode: a NULL for a NOT NULL column is stored
\* as the column type's implicit default, with a warning and no error.
Update_nonstrict(table, ent, q) ==
    LET id == q.params[Len(q.params)][1]
        old == table[id]
        given(f) == ColumnValue(ent, f, q.params[Index(q.columns, f)])
        new == [f \in FieldSet(ent) |->
                   IF f \notin Range(q.columns) THEN old[f]
                   ELSE IF given(f) = None /\ f \in NotNull(ent)
                   THEN (IF f \in {"price", "stock_quantity"} THEN Some(0) ELSE Some(""))
                   ELSE given(f)]
    IN  IF id \notin DOMAIN table
        THEN [error |-> "", rowcount |-> 0, lastrowid |-> 0, write |-> NoTx]
        ELSE IF Duplicate(table, ent, id, new[UniqueField(ent)])
        THEN [error |-> "1062 Duplicate entry", rowcount |-> 0 - 1,
              lastrowid |-> 0, write |-> NoTx]
        ELSE [error |-> "", rowcount |-> IF new = old THEN 0 ELSE 1,
              lastrowid |-> 0,
              write |-> [kind |-> "put", ent |-> ent, id |-> id, row |-> new,
                         uvals |-> {old[UniqueField(ent)], new[UniqueField(ent)]}]]

\* UPDATE <table> SET <columns> = <params> WHERE <id column> = <last param>.
\* The server counts the rows it changed, not the rows it matched.
Update(table, ent, q) ==
    LET id == q.params[Len(q.params)][1]
        old == table[id]
        new == [f \in FieldSet(ent) |->
                   IF f \in Range(q.columns)
                   THEN ColumnValue(ent, f, q.params[Index(q.columns, f)])
                   ELSE old[f]]
    IN  IF id \notin DOMAIN table
        THEN [error |-> "", rowcount |-> 0, lastrowid |-> 0, write |-> NoTx]
        ELSE IF \E f \in NotNull(ent) : new[f] = None
        THEN [error |-> "1048 Column cannot be null", rowcount |-> 0 - 1,
              lastrowid |-> 0, write |-> NoTx]
        ELSE IF Duplicate(table, ent, id, new[UniqueField(ent)])
        THEN [error |-> "1062 Duplicate entry", rowcount |-> 0 - 1,
              lastrowid |-> 0, write |-> NoTx]
        ELSE [error |-> "", rowcount |-> IF new = old THEN 0 ELSE 1,
              lastrowid |-> 0,
              write |-> [kind |-> "put", ent |-> ent, id |-> id, row |-> new,
                         uvals |-> {old[UniqueField(ent)], new[UniqueField(ent)]}]]

\* A DELETE that counts a row whether or not it matched one.
Delete_counting(table, ent, q) ==
    LET id == q.params[1][1]
    IN  IF id \notin DOMAIN table
        THEN [error |-> "", rowcount |-> 1, lastrowid |-> 0, write |-> NoTx]
        ELSE [error |-> "", rowcount |-> 1, lastrowid |-> 0,
              write |-> [kind |-> "del", ent |-> ent, id |-> id, row |-> None,
                         uvals |-> {table[id][UniqueField(ent)]}]]

\* DELETE FROM <table> WHERE <id column> = <param>
Delete(table, ent, q) ==
    LET id == q.params[1][1]
    IN  IF id \notin DOMAIN table
        THEN [error |-> "", rowcount |-> 0, lastrowid |-> 0, write |-> NoTx]
        ELSE [error |-> "", rowcount |-> 1, lastrowid |-> 0,
              write |-> [kind |-> "del", ent |-> ent, id |-> id, row |-> None,
                         uvals |-> {table[id][UniqueField(ent)]}]]

\* The rows a dictionary cursor fetches: each row with its identifier column.
Record(ent, id, row) ==
    [f \in FieldSet(ent) \cup {IdColumn(ent)} |->
        IF f = IdColumn(ent) THEN Some(id) ELSE row[f]]

\* SELECT * FROM <table> [WHERE <id column> = <param>]
Select(table, ent, q) ==
    {Record(ent, id, table[id]) :
        id \in {j \in DOMAIN table : q.params = <<>> \/ q.params[1][1] = j}}

\* A COMMIT under which a deleted row stays in the table (a tombstone).
Committed_keeping(table, w) ==
    CASE w.kind = "put" ->
            [j \in DOMAIN table \cup {w.id} |-> IF j = w.id THEN w.row ELSE table[j]]
      [] OTHER -> table

\* A COMMIT of a DELETE that had no WHERE clause.
Committed_sweeping(table, w) ==
    CASE w.kind = "put" ->
            [j \in DOMAIN table \cup {w.id} |-> IF j = w.id THEN w.row ELSE table[j]]
      [] w.kind = "del" -> <<>>
      [] OTHER -> table

\* COMMIT: the connection's pending write reaches the table.
Committed(table, w) ==
    CASE w.kind = "put" ->
            [j \in DOMAIN table \cup {w.id} |-> IF j = w.id THEN w.row ELSE table[j]]
      [] w.kind = "del" -> [j \in DOMAIN table \ {w.id} |-> table[j]]
      [] OTHER -> table

\* The unique values a write reads or writes, which it locks until it commits.
Keys(table, ent, id, q) ==
    (IF id \in DOMAIN table THEN {table[id][UniqueField(ent)]} ELSE {})
    \cup {ColumnValue(ent, UniqueField(ent), q.params[i]) :
            i \in {j \in 1..Len(q.columns) :
                     q.columns[j] = UniqueField(ent)
                     /\ (q.kind = "INSERT" \/ id \in DOMAIN table)}}

\* ---------------------------------------------------------------- requests
NoQuery == [kind |-> "none"]

Idle ==
    [pc |-> "idle", op |-> "", ent |-> "", id |-> 0, data |-> <<>>, conn |-> 0,
     status |-> 0, unhandled |-> FALSE, detail |-> "", query |-> NoQuery,
     rowcount |-> 0 - 1, lastrowid |-> 0, result |-> {}]

\* The connections requests hold.
Borrowed ==
    {req[r].conn : r \in {x \in Reqs : req[x].pc \in {"cursor", "body", "commit", "release"}}}

\* Inserts that were accepted and have not reached the server yet.
PendingInserts(ent) ==
    Cardinality({r \in Reqs : req[r].pc \in {"acquire", "cursor", "body"} /\ req[r].op = "create"
                              /\ req[r].ent = ent})

TypeOK ==
    /\ \A e \in Entities : DOMAIN db[e] \subseteq Ids /\ nextId[e] \in 1..(MaxId + 1)
    /\ pool \subseteq Conns
    /\ connected \in [Conns -> BOOLEAN]
    /\ DOMAIN tx = Conns
    /\ DOMAIN req = Reqs
    /\ drops \in 0..MaxDrops
    /\ process \in [phase : {"starting", "serving", "exited"}, db_pool : BOOLEAN]

Init ==
    /\ db = [e \in Entities |-> <<>>]
    /\ nextId = [e \in Entities |-> 1]
    /\ pool = Conns
    /\ connected = [c \in Conns |-> TRUE]
    /\ tx = [c \in Conns |-> NoTx]
    /\ req = [r \in Reqs |-> Idle]
    /\ drops = 0
    /\ process = [phase |-> "serving", db_pool |-> TRUE]

\* The response leaves the handler: an HTTPException, or the returned value.
Respond(r, status, detail) ==
    [req[r] EXCEPT !.pc = "release", !.status = status, !.detail = detail]

\* An exception other than HTTPException leaves the handler: the server
\* answers 500 Internal Server Error.
Raise(r, detail) ==
    [req[r] EXCEPT !.pc = "release", !.status = 500, !.unhandled = TRUE,
                   !.detail = detail]

\* The module is being imported: db_pool is None, no connection exists and
\* no table is known to exist.
Boot ==
    /\ db = [e \in Entities |-> <<>>]
    /\ nextId = [e \in Entities |-> 1]
    /\ pool = {}
    /\ connected = [c \in Conns |-> FALSE]
    /\ tx = [c \in Conns |-> NoTx]
    /\ req = [r \in Reqs |-> Idle]
    /\ drops = 0
    /\ process = [phase |-> "starting", db_pool |-> FALSE]

\* A startup that goes on to serve when the database or the pool could not
\* be set up (the failure is printed and nothing more).
Startup_continuing ==
    /\ process.phase = "starting"
    /\ \E outcome \in {"ok", "no pool", "no tables"} :
          IF outcome = "no pool"
          THEN /\ process' = [phase |-> "serving", db_pool |-> FALSE]
               /\ UNCHANGED <<pool, connected>>
          ELSE /\ pool' = Conns
               /\ connected' = [c \in Conns |-> TRUE]
               /\ process' = [phase |-> IF outcome = "ok" THEN "serving" ELSE "exited",
                              db_pool |-> TRUE]
    /\ UNCHANGED <<db, nextId, tx, req, drops>>

\* The module's top level: initialize_database() and the pool's
\* construction, which opens the pool's connections; an Error of either ends
\* the process through exit().  Then create_db_tables(), whose Error is not
\* caught and ends the import, and with it the process, as well.
Startup ==
    /\ process.phase = "starting"
    /\ \E outcome \in {"ok", "no pool", "no tables"} :
          IF outcome = "no pool"
          THEN /\ process' = [phase |-> "exited", db_pool |-> FALSE]
               /\ UNCHANGED <<pool, connected>>
          ELSE /\ pool' = Conns
               /\ connected' = [c \in Conns |-> TRUE]
               /\ process' = [phase |-> IF outcome = "ok" THEN "serving" ELSE "exited",
                              db_pool |-> TRUE]
    /\ UNCHANGED <<db, nextId, tx, req, drops>>

\* A request arrives at the serving process: the server routes it to its
\* handler, whose dependencies it resolves first.
Request(r, op, ent, id, data) ==
    /\ process.phase = "serving"
    /\ req[r].pc = "idle"
    /\ op = "create" => nextId[ent] + PendingInserts(ent) <= MaxId
    /\ req' = [req EXCEPT ![r] =
                 [Idle EXCEPT !.pc = "acquire", !.op = op, !.ent = ent, !.id = id,
                              !.data = data]]
    /\ UNCHANGED <<db, nextId, pool, connected, tx, drops, process>>

\* The acquisition fails: the exception leaves the dependency before the
\* handler is called, and the server answers 500 Internal Server Error.
Failed(r, detail) ==
    [req[r] EXCEPT !.pc = "failed", !.status = 500, !.unhandled = TRUE,
                   !.detail = detail]

\* get_db_connection with a pool that hands a connection out and keeps it
\* available.
get_db_connection_shared(r, c) ==
    /\ req[r].pc = "acquire"
    /\ IF pool = {}
       THEN /\ req' = [req EXCEPT ![r] = Failed(r, "Failed getting connection; pool exhausted")]
            /\ UNCHANGED <<pool, connected>>
       ELSE /\ c \in pool
            /\ \E ok \in IF connected[c] THEN {TRUE} ELSE BOOLEAN :
                  IF ok
                  THEN /\ pool' = pool
                       /\ connected' = [connected EXCEPT ![c] = TRUE]
                       /\ req' = [req EXCEPT ![r] =
                                    [req[r] EXCEPT !.pc = "cursor", !.conn = c]]
                  ELSE /\ req' = [req EXCEPT ![r] = Failed(r, "Can not reconnect to MySQL")]
                       /\ UNCHANGED <<pool, connected>>
    /\ UNCHANGED <<db, nextId, tx, drops, process>>

\* get_db_connection with a pool that makes the caller wait for a connection
\* (a blocking get on the pool's queue).
get_db_connection_blocking(r, c) ==
    /\ req[r].pc = "acquire"
    /\ c \in pool
    /\ \E ok \in IF connected[c] THEN {TRUE} ELSE BOOLEAN :
          IF ok
          THEN /\ pool' = pool \ {c}
               /\ connected' = [connected EXCEPT ![c] = TRUE]
               /\ req' = [req EXCEPT ![r] =
                            [req[r] EXCEPT !.pc = "cursor", !.conn = c]]
          ELSE /\ req' = [req EXCEPT ![r] = Failed(r, "Can not reconnect to MySQL")]
               /\ UNCHANGED <<pool, connected>>
    /\ UNCHANGED <<db, nextId, tx, drops, process>>

\* get_db_connection up to its yield: db_pool.get_connection() raises
\* PoolError when no connection is available (it does not wait), and
\* otherwise hands out an available connection c; a connection found
\* disconnected is reconnected, and when that fails it is put back and the
\* error raised.  The cursor dependency runs next.
get_db_connection(r, c) ==
    /\ req[r].pc = "acquire"
    /\ IF pool = {}
       THEN /\ req' = [req EXCEPT ![r] = Failed(r, "Failed getting connection; pool exhausted")]
            /\ UNCHANGED <<pool, connected>>
       ELSE /\ c \in pool
            /\ \E ok \in IF connected[c] THEN {TRUE} ELSE BOOLEAN :
                  IF ok
                  THEN /\ pool' = pool \ {c}
                       /\ connected' = [connected EXCEPT ![c] = TRUE]
                       /\ req' = [req EXCEPT ![r] =
                                    [req[r] EXCEPT !.pc = "cursor", !.conn = c]]
                  ELSE /\ req' = [req EXCEPT ![r] = Failed(r, "Can not reconnect to MySQL")]
                       /\ UNCHANGED <<pool, connected>>
    /\ UNCHANGED <<db, nextId, tx, drops, process>>

\* get_db_connection's finally block, entered after the yield or from the
\* failed get_connection (conn is None then): it closes the connection,
\* which gives it back to the pool (after a session reset), when there is
\* one and conn.is_connected() answers true, and does nothing otherwise.
get_db_connection_finally(r) ==
    /\ req[r].pc \in {"release", "failed"}
    /\ LET c == req[r].conn
       IN  IF c # 0 /\ connected[c]
           THEN /\ pool' = pool \cup {c}
                /\ tx' = [tx EXCEPT ![c] = NoTx]
                /\ req' = [req EXCEPT ![r] = Idle]
           ELSE /\ req' = [req EXCEPT ![r] = Idle]
                /\ UNCHANGED <<pool, tx>>
    /\ UNCHANGED <<db, nextId, connected, drops, process>>

\* The Error a cursor's creation, a statement or a commit raises on a lost
\* connection.
Lost == "MySQL Connection not available"

\* get_cursor / get_dict_cursor up to their yield: conn.cursor() opens a
\* cursor, and raises OperationalError when the connection is lost.  The
\* exception leaves the dependency: the handler is not called, the server
\* answers 500 and get_db_connection's finally block runs.
get_cursor(r) ==
    /\ req[r].pc = "cursor"
    /\ req' = [req EXCEPT ![r] =
                 IF connected[req[r].conn]
                 THEN [req[r] EXCEPT !.pc = "body"]
                 ELSE Raise(r, Lost)]
    /\ UNCHANGED <<db, nextId, pool, connected, tx, drops, process>>

\* The server or the network drops a connection: its uncommitted write is
\* rolled back.
Disconnect(c) ==
    /\ drops < MaxDrops
    /\ connected[c]
    /\ connected' = [connected EXCEPT ![c] = FALSE]
    /\ tx' = [tx EXCEPT ![c] = NoTx]
    /\ drops' = drops + 1
    /\ UNCHANGED <<db, nextId, pool, req, process>>

\* ---------------------------------------------------------------- handlers
Running(r, op, ent) ==
    /\ req[r].pc \in {"body", "commit"}
    /\ req[r].op = op
    /\ req[r].ent = ent

\* f"Database error: {e}", the detail of the 400 an Error is turned into.
DatabaseError(e) ==
    CASE e = "1048 Column cannot be null" ->
            "Database error: 1048 Column cannot be null"
      [] e = "1062 Duplicate entry" -> "Database error: 1062 Duplicate entry"
      [] e = "MySQL Connection not available" ->
            "Database error: MySQL Connection not available"

NotFound(ent) ==
    IF ent = "customers" THEN "Customer not found" ELSE "Product not found"

\* A handler that leaves the commit out: the write stays pending on the
\* connection.
Commit_forgotten(r) == UNCHANGED <<db, tx>>

\* conn.commit() of a handler whose statement went through.
Commit(r) ==
    LET c == req[r].conn
        e == req[r].ent
    IN  /\ db' = [db EXCEPT ![e] = Committed(db[e], tx[c])]
        /\ tx' = [tx EXCEPT ![c] = NoTx]

\* get_customers / get_products: SELECT * and fetchall; no except clause.
List(r, ent) ==
    /\ Running(r, "list", ent)
    /\ LET q == [kind |-> "SELECT", table |-> ent, columns |-> <<>>, params |-> <<>>]
       IN  req' = [req EXCEPT ![r] =
                IF ~connected[req[r].conn]
                THEN [Raise(r, Lost) EXCEPT !.query = q]
                ELSE [Respond(r, 200, "") EXCEPT
                         !.query = q, !.result = Select(db[ent], ent, q)]]
    /\ UNCHANGED <<db, nextId, pool, connected, tx, drops, process>>

\* get_customer / get_product: SELECT by identifier and fetchone; 404 when
\* no row came back; no except clause.
Get(r, ent) ==
    /\ Running(r, "get", ent)
    /\ LET q == [kind |-> "SELECT", table |-> ent, columns |-> <<>>,
                 params |-> <<Some(req[r].id)>>]
           rows == Select(db[ent], ent, q)
       IN  req' = [req EXCEPT ![r] =
                IF ~connected[req[r].conn]
                THEN [Raise(r, Lost) EXCEPT !.query = q]
                ELSE IF rows = {}
                THEN [Respond(r, 404, NotFound(ent)) EXCEPT !.query = q]
                ELSE [Respond(r, 200, "") EXCEPT !.query = q, !.result = rows]]
    /\ UNCHANGED <<db, nextId, pool, connected, tx, drops, process>>

\* create_customer / create_product: INSERT, commit, return cursor.lastrowid;
\* a mysql.connector Error of either call becomes HTTP 400.
Create(r, ent) ==
    /\ Running(r, "create", ent)
    /\ LET c == req[r].conn
           q == [kind |-> "INSERT", table |-> ent, columns |-> Fields(ent),
                 params |-> [i \in 1..Len(Fields(ent)) |-> req[r].data[Fields(ent)[i]]]]
           out == Insert(db[ent], ent, nextId[ent], q)
       IN  IF req[r].pc = "body"
           THEN IF ~connected[c]
                THEN /\ req' = [req EXCEPT ![r] =
                                  [Respond(r, 400, DatabaseError(Lost)) EXCEPT
                                      !.query = q]]
                     /\ UNCHANGED <<db, nextId, tx>>
                ELSE /\ ~Locked(c, ent, nextId[ent], Keys(db[ent], ent, nextId[ent], q))
                     /\ nextId' = [nextId EXCEPT ![ent] = AutoIncrement(@)]
                     /\ tx' = [tx EXCEPT ![c] = out.write]
                     /\ req' = [req EXCEPT ![r] =
                                  IF out.error # ""
                                  THEN [Respond(r, 400, DatabaseError(out.error)) EXCEPT
                                           !.query = q]
                                  ELSE [req[r] EXCEPT
                                           !.pc = "commit", !.query = q,
                                           !.rowcount = out.rowcount,
                                           !.lastrowid = out.lastrowid]]
                     /\ UNCHANGED db
           ELSE IF ~connected[c]
                THEN /\ req' = [req EXCEPT ![r] = Respond(r, 400, DatabaseError(Lost))]
                     /\ UNCHANGED <<db, nextId, tx>>
                ELSE /\ Commit(r)
                     /\ req' = [req EXCEPT ![r] = Respond(r, 200, "created successfully")]
                     /\ UNCHANGED nextId
    /\ UNCHANGED <<pool, connected, drops, process>>

\* Keys a caller may put in a body that the Update models do not declare.
Undeclared(ent) == <<IdColumn(ent), "is_admin">>

\* An Update model that keeps the keys it does not declare (extra="allow"),
\* so that the dump returns them.
model_dump_allowing(ent, body) == body

\* CustomerUpdate / ProductUpdate validate the body, ignoring the keys they
\* do not declare, and model_dump(exclude_unset=True) returns the declared
\* fields the body set.
model_dump(ent, body) == [f \in DOMAIN body \cap FieldSet(ent) |-> body[f]]

\* The statement update_customer / update_product build from update_data:
\* one "key = %s" per key of update_data, in the dictionary's order (the
\* declared fields in field order, then any other key), the values bound as
\* parameters and the identifier bound last.
UpdateQuery(ent, id, data) ==
    LET keys == SelectSeq(Fields(ent) \o Undeclared(ent), LAMBDA k : k \in DOMAIN data)
    IN  [kind |-> "UPDATE", table |-> ent, columns |-> keys,
         params |-> [i \in 1..(Len(keys) + 1) |->
                        IF i <= Len(keys) THEN data[keys[i]] ELSE Some(id)]]

\* update_customer / update_product without their check of update_data.
UpdateRow_unchecked(r, ent) ==
    /\ Running(r, "update", ent)
    /\ LET c == req[r].conn
           update_data == model_dump(ent, req[r].data)
           q == UpdateQuery(ent, req[r].id, update_data)
           out == Update(db[ent], ent, q)
       IN  IF req[r].pc = "body"
           THEN IF ~connected[c]
                THEN /\ req' = [req EXCEPT ![r] =
                                  [Respond(r, 400, DatabaseError(Lost)) EXCEPT
                                      !.query = q]]
                     /\ UNCHANGED <<db, tx>>
                ELSE /\ ~Locked(c, ent, req[r].id, Keys(db[ent], ent, req[r].id, q))
                     /\ tx' = [tx EXCEPT ![c] = out.write]
                     /\ req' = [req EXCEPT ![r] =
                                  IF out.error # ""
                                  THEN [Respond(r, 400, DatabaseError(out.error)) EXCEPT
                                           !.query = q]
                                  ELSE [req[r] EXCEPT
                                           !.pc = "commit", !.query = q,
                                           !.rowcount = out.rowcount]]
                     /\ UNCHANGED db
           ELSE IF ~connected[c]
                THEN /\ req' = [req EXCEPT ![r] = Respond(r, 400, DatabaseError(Lost))]
                     /\ UNCHANGED <<db, tx>>
                ELSE /\ Commit(r)
                     /\ req' = [req EXCEPT ![r] =
                                  IF req[r].rowcount = 0
                                  THEN Respond(r, 404, NotFound(ent))
                                  ELSE Respond(r, 200, "updated successfully")]
    /\ UNCHANGED <<nextId, pool, connected, drops, process>>

\* update_customer / update_product: 400 when no field was supplied; else
\* the UPDATE and the commit, an Error of either becoming 400; then 404 when
\* cursor.rowcount is 0.
UpdateRow(r, ent) ==
    /\ Running(r, "update", ent)
    /\ LET c == req[r].conn
           update_data == model_dump(ent, req[r].data)
           q == UpdateQuery(ent, req[r].id, update_data)
           out == Update(db[ent], ent, q)
       IN  IF req[r].pc = "body"
           THEN IF DOMAIN update_data = {}
                THEN /\ req' = [req EXCEPT ![r] = Respond(r, 400, "No fields to update")]
                     /\ UNCHANGED <<db, tx>>
                ELSE IF ~connected[c]
                THEN /\ req' = [req EXCEPT ![r] =
                                  [Respond(r, 400, DatabaseError(Lost)) EXCEPT
                                      !.query = q]]
                     /\ UNCHANGED <<db, tx>>
                ELSE /\ ~Locked(c, ent, req[r].id, Keys(db[ent], ent, req[r].id, q))
                     /\ tx' = [tx EXCEPT ![c] = out.write]
                     /\ req' = [req EXCEPT ![r] =
                                  IF out.error # ""
                                  THEN [Respond(r, 400, DatabaseError(out.error)) EXCEPT
                                           !.query = q]
                                  ELSE [req[r] EXCEPT
                                           !.pc = "commit", !.query = q,
                                           !.rowcount = out.rowcount]]
                     /\ UNCHANGED db
           ELSE IF ~connected[c]
                THEN /\ req' = [req EXCEPT ![r] = Respond(r, 400, DatabaseError(Lost))]
                     /\ UNCHANGED <<db, tx>>
                ELSE /\ Commit(r)
                     /\ req' = [req EXCEPT ![r] =
                                  IF req[r].rowcount = 0
                                  THEN Respond(r, 404, NotFound(ent))
                                  ELSE Respond(r, 200, "updated successfully")]
    /\ UNCHANGED <<nextId, pool, connected, drops, process>>

\* delete_customer / delete_product: DELETE, commit, then 404 when
\* cursor.rowcount is 0; no except clause.
DeleteRow(r, ent) ==
    /\ Running(r, "delete", ent)
    /\ LET c == req[r].conn
           q == [kind |-> "DELETE", table |-> ent, columns |-> <<>>,
                 params |-> <<Some(req[r].id)>>]
           out == Delete(db[ent], ent, q)
       IN  IF ~connected[c]
           THEN /\ req' = [req EXCEPT ![r] =
                             [Raise(r, Lost) EXCEPT
                                 !.query = q]]
                /\ UNCHANGED <<db, tx>>
           ELSE IF req[r].pc = "body"
           THEN /\ ~Locked(c, ent, req[r].id, Keys(db[ent], ent, req[r].id, q))
                /\ tx' = [tx EXCEPT ![c] = out.write]
                /\ req' = [req EXCEPT ![r] =
                             [req[r] EXCEPT !.pc = "commit", !.query = q,
                                            !.rowcount = out.rowcount]]
                /\ UNCHANGED db
           ELSE /\ Commit(r)
                /\ req' = [req EXCEPT ![r] =
                             IF req[r].rowcount = 0
                             THEN Respond(r, 404, NotFound(ent))
                             ELSE Respond(r, 200, "deleted successfully")]
    /\ UNCHANGED <<nextId, pool, connected, drops, process>>

get_customers(r) == List(r, "customers")
create_customer(r) == Create(r, "customers")
get_customer(r) == Get(r, "customers")
update_customer(r) == UpdateRow(r, "customers")
delete_customer(r) == DeleteRow(r, "customers")
get_products(r) == List(r, "products")
create_product(r) == Create(r, "products")
get_product(r) == Get(r, "products")
update_product(r) == UpdateRow(r, "products")
delete_product(r) == DeleteRow(r, "products")

\* One step of a handler of request r that writes.
Writes(r) ==
    \/ create_customer(r)
    \/ update_customer(r)
    \/ delete_customer(r)
    \/ create_product(r)
    \/ update_product(r)
    \/ delete_product(r)

\* One step of the handler of request r.
Handle(r) ==
    \/ get_customers(r)
    \/ create_customer(r)
    \/ get_customer(r)
    \/ update_customer(r)
    \/ delete_customer(r)
    \/ get_products(r)
    \/ create_product(r)
    \/ get_product(r)
    \/ update_product(r)
    \/ delete_product(r)

\* ------------------------------------------------------------------- specs
\* A caller's request: any operation on entity ent, an identifier among
\* ids, a Create body among creates and an Update body among updates.
Arrive(r, ent, ids, creates, updates) ==
    \/ Request(r, "list", ent, 0, <<>>)
    \/ \E d \in creates : Request(r, "create", ent, 0, d)
    \/ \E id \in ids :
          \/ Request(r, "get", ent, id, <<>>)
          \/ Request(r, "delete", ent, id, <<>>)
          \/ \E d \in updates : Request(r, "update", ent, id, d)

Other(ent) == IF ent = "customers" THEN "products" ELSE "customers"

\* Bodies that leave the optional fields out, and updates of the unique
\* field alone.
LightCreates ==
    [ent \in Entities |->
        {d \in CreateInputs(ent) :
            /\ \A f \in Optional(ent) : d[f] = None
            /\ ent = "products" => d["price"] = Some(1995)}]
LightUpdates ==
    [ent \in Entities |->
        {d \in UpdateInputs(ent, 1) : DOMAIN d \subseteq {UniqueField(ent)}}]
\* Updates of the unique field whose body carries one key more, which the
\* Update model does not declare.
StrayUpdates ==
    [ent \in Entities |->
        {[k \in DOMAIN d \cup {x} |-> IF k = x THEN Some(2) ELSE d[k]] :
            d \in {u \in LightUpdates[ent] : \A f \in DOMAIN u : u[f] # None},
            x \in Range(Undeclared(ent))}]
AllCreates == [ent \in Entities |-> CreateInputs(ent)]
AllUpdates == [ent \in Entities |-> UpdateInputs(ent, MaxSupplied)]

\* Rows are created in one of the two tables only.
Session(ent, creates) == IF nextId[Other(ent)] = 1 THEN creates ELSE {}

\* Pooled connections differ only in being connected or not: the lowest
\* connected one and the lowest disconnected one stand for every connection
\* the pool may hand out (any connection when the pool is empty: none is
\* handed out then).
Handout ==
    IF pool = {} THEN {1}
    ELSE {c \in pool : \A c2 \in pool : connected[c2] = connected[c] => c <= c2}

\* The connections that may drop: a borrowed one, or a pooled one (the
\* lowest stands for them all).
Droppable == Borrowed \cup {c \in Handout : c \in pool}

\* Under Spec: one caller sending one request after the other, every
\* operation on both entities, while connections may drop.
Next ==
    \/ \E ent \in Entities :
          Arrive(1, ent, Ids, Session(ent, LightCreates[ent]),
                 LightUpdates[ent] \cup StrayUpdates[ent])
    \/ \E c \in Handout : get_db_connection(1, c)
    \/ get_cursor(1)
    \/ Handle(1)
    \/ get_db_connection_finally(1)
    \/ \E c \in Droppable : Disconnect(c)

Spec == Init /\ [][Next]_vars

\* Under SpecStart: the same caller and the same faults, from the import of
\* the module on.
NextStart == Startup \/ Next

SpecStart == Boot /\ [][NextStart]_vars

\* Between its arrival and its acquisition a request touches nothing that
\* is shared, so the order of the arrivals is taken to be the order of the
\* acquisitions: a request arrives when none is waiting for its connection.
Receiving == \E r \in Reqs : req[r].pc = "acquire"

\* The cursor dependency touches nothing but the request's own connection,
\* so the order of the arrivals is also taken to be the order in which the
\* handlers are reached: a request arrives when none is between its arrival
\* and its handler.
Entering == \E r \in Reqs : req[r].pc \in {"acquire", "cursor"}

\* Under SpecConc: two callers at once and a server that stays up; the
\* operations that write, on identifiers that were assigned, with updates
\* that change the unique field.
Pair == {1, 2}
Assigned(ent) == {id \in Ids : id < nextId[ent]}
ConcUpdates ==
    [ent \in Entities |->
        {d \in UpdateInputs(ent, 1) :
            DOMAIN d = {UniqueField(ent)} /\ d[UniqueField(ent)] # None}]

NextConc ==
    \E r \in Pair :
        \/ \E ent \in Entities :
              /\ ~Entering
              /\ \/ \E d \in Session(ent, LightCreates[ent]) :
                       Request(r, "create", ent, 0, d)
                 \/ \E id \in Assigned(ent), d \in ConcUpdates[ent] :
                       Request(r, "update", ent, id, d)
                 \/ \E id \in Assigned(ent) : Request(r, "delete", ent, id, <<>>)
        \/ \E c \in Handout : get_db_connection(r, c)
        \/ get_cursor(r)
        \/ Writes(r)
        \/ get_db_connection_finally(r)

SpecConc == Init /\ [][NextConc]_vars

\* Under SpecRace: two callers at once and a server that stays up.  Rows are
\* created while the other caller has nothing in flight; the Updates are of
\* stored rows and supply values for the unique field, for one other field,
\* or for both.
RaceFields(ent) ==
    IF ent = "customers" THEN {"email", "phone"} ELSE {"name", "description"}
RaceUpdates ==
    [ent \in Entities |->
        {d \in UpdateInputs(ent, MaxSupplied) :
            /\ DOMAIN d # {}
            /\ DOMAIN d \subseteq RaceFields(ent)
            /\ \A f \in DOMAIN d : d[f] # None}]

NextRace ==
    \E r \in Pair :
        \/ \E ent \in Entities :
              /\ ~Entering
              /\ \/ \E d \in Session(ent, LightCreates[ent]) :
                       /\ \A r2 \in Pair : req[r2].pc = "idle"
                       /\ Request(r, "create", ent, 0, d)
                 \/ \E id \in DOMAIN db[ent], d \in RaceUpdates[ent] :
                       Request(r, "update", ent, id, d)
        \/ \E c \in Handout : get_db_connection(r, c)
        \/ get_cursor(r)
        \/ create_customer(r)
        \/ update_customer(r)
        \/ create_product(r)
        \/ update_product(r)
        \/ get_db_connection_finally(r)

SpecRace == Init /\ [][NextRace]_vars

\* Under SpecPool: one caller more than the pool has connections, each
\* listing the customers.  Either the callers contend for the connections of
\* a server that stays reachable, or connections drop and caller 1 alone
\* keeps sending.  Callers that have nothing in flight are interchangeable:
\* the lowest one stands for them all.  The server runs the dependency of a
\* request it received: the acquisition step is weakly fair.
Senders ==
    {r \in Reqs :
        /\ req[r].pc = "idle"
        /\ \A r2 \in Reqs : req[r2].pc = "idle" => r <= r2
        /\ drops = 0 \/ r = 1
        /\ ~Entering}

Quiet == \A r \in Reqs \ {1} : req[r].pc = "idle"

Acquire(r) == \E c \in Handout : get_db_connection(r, c)

NextPool ==
    \/ \E r \in Reqs :
          \/ r \in Senders /\ Request(r, "list", "customers", 0, <<>>)
          \/ Acquire(r)
          \/ get_cursor(r)
          \/ get_customers(r)
          \/ get_db_connection_finally(r)
    \/ \E c \in Droppable : Quiet /\ Disconnect(c)

SpecPool == Init /\ [][NextPool]_vars /\ \A r \in Reqs : WF_vars(Acquire(r))

\* Under SpecData: one caller sending one request after the other to a
\* server that stays up; every Create body, every Update body of at most
\* MaxSupplied fields.
NextData ==
    \/ \E ent \in Entities :
          Arrive(1, ent, Ids, Session(ent, AllCreates[ent]), AllUpdates[ent])
    \/ \E c \in Handout : get_db_connection(1, c)
    \/ get_cursor(1)
    \/ Handle(1)
    \/ get_db_connection_finally(1)

SpecData == Init /\ [][NextData]_vars

\* Under SpecFrame: one caller sending one request after the other to a
\* server that stays up, every operation, with rows in both tables.
NextFrame ==
    \/ \E ent \in Entities :
          Arrive(1, ent, 1..(MaxId + 1), LightCreates[ent], LightUpdates[ent])
    \/ \E c \in Handout : get_db_connection(1, c)
    \/ get_cursor(1)
    \/ Handle(1)
    \/ get_db_connection_finally(1)

SpecFrame == Init /\ [][NextFrame]_vars

\* Under SpecSeen: two callers at once and a server that stays up.  Caller 1
\* writes, one request after the other; caller 2 reads, each of its Gets on
\* its own connection, before, while and after a write runs.
SeenUpdates ==
    [ent \in Entities |-> {d \in RaceUpdates[ent] : Cardinality(DOMAIN d) = 1}]

NextSeen ==
    \/ \E ent \in Entities :
          /\ ~Entering
          /\ \/ \E d \in Session(ent, LightCreates[ent]) : Request(1, "create", ent, 0, d)
             \/ \E id \in Ids, d \in SeenUpdates[ent] : Request(1, "update", ent, id, d)
             \/ \E id \in Ids : Request(1, "delete", ent, id, <<>>)
             \/ \E id \in Ids : Request(2, "get", ent, id, <<>>)
    \/ \E r \in Pair :
          \/ \E c \in Handout : get_db_connection(r, c)
          \/ get_cursor(r)
          \/ Writes(r)
          \/ get_customer(r)
          \/ get_product(r)
          \/ get_db_connection_finally(r)

SpecSeen == Init /\ [][NextSeen]_vars


\* ------------------------------------------------------------------ claims
\* The requests that hold a connection: from the acquisition to the end of
\* the finally block.
Holding == {r \in Reqs : req[r].pc \in {"cursor", "body", "commit", "release"}}

\* C1 (as the specification states it): the step that ends a request gives
\* the request's connection back to the pool, exactly once and on every exit
\* path, among them a connection found disconnected; so that all the
\* connections are available whenever no request is in flight.
C1_ReleasedOnEveryExit ==
    [][/\ \A r \in Reqs :
            (req[r].pc = "release" /\ req'[r].pc = "idle")
                => (req[r].conn \notin pool /\ req[r].conn \in pool')
       /\ (\A r \in Reqs : req'[r].pc = "idle") => pool' = Conns]_vars

\* C2: in every reachable state a connection is held by at most one request
\* in flight, and a connection that is held is not available to another.
C2_ExclusiveOwnership ==
    /\ \A r1, r2 \in Holding : r1 # r2 => req[r1].conn # req[r2].conn
    /\ \A r \in Holding : req[r].conn \in Conns \ pool

\* C2's case: the five connections are held by five requests at once.
C2_AllHeld == Cardinality(Holding) = pool_size /\ pool = {}

\* C3: an Update that supplies no field is answered 400 "No fields to update"
\* by the first step of its handler, for a stored identifier and for one
\* that is not stored, whatever the state of its connection; no statement
\* is built or executed, and the tables and the pending writes are unchanged.
C3_EmptyUpdateRejected ==
    [][\A r \in Reqs :
          (/\ req[r].op = "update"
           /\ req[r].pc = "body"
           /\ DOMAIN req[r].data = {}
           /\ req'[r] # req[r])
          => /\ req'[r].pc = "release"
             /\ req'[r].status = 400
             /\ req'[r].detail = "No fields to update"
             /\ req'[r].query = NoQuery
             /\ db' = db
             /\ tx' = tx]_vars

\* C3's case: the empty Update of a stored row was answered.
C3_EmptyUpdateAnswered ==
    \E r \in Reqs :
        /\ req[r].op = "update"
        /\ req[r].pc = "release"
        /\ DOMAIN req[r].data = {}
        /\ req[r].id \in DOMAIN db[req[r].ent]
        /\ req[r].status = 400

\* The value a column holds for a supplied value: the value itself, a price
\* to the nearest hundredth (prices are not negative here).
Stored(ent, f, v) ==
    IF ent = "products" /\ f = "price" /\ v # None
    THEN Some(((v[1] + 5) \div 10) * 10)
    ELSE v

\* The commit of an Update whose statement the server accepted for a stored
\* row.
UpdateCommits(r) ==
    /\ req[r].op = "update"
    /\ req[r].pc = "commit"
    /\ req'[r].pc = "release"
    /\ req[r].id \in DOMAIN db[req[r].ent]

\* C4 (as the specification states it): after an Update of a stored row that
\* violates no constraint, every supplied field equals the supplied value,
\* and every other field, and the identifier, is as it was.
C4_SuppliedValuesStored ==
    [][\A r \in Reqs :
          UpdateCommits(r) =>
              LET e == req[r].ent
                  id == req[r].id
                  d == req[r].data
              IN  /\ DOMAIN db'[e] = DOMAIN db[e]
                  /\ \A f \in FieldSet(e) :
                        db'[e][id][f] = IF f \in DOMAIN d THEN d[f] ELSE db[e][id][f]]_vars

\* C4 (amended): after an Update of a stored row that violates no
\* constraint, every supplied field holds the supplied value, a price
\* rounded to two decimals, and every other field, and the identifier, is as
\* it was.
C4_SuppliedValuesStoredRounded ==
    [][\A r \in Reqs :
          UpdateCommits(r) =>
              LET e == req[r].ent
                  id == req[r].id
                  d == req[r].data
              IN  /\ DOMAIN db'[e] = DOMAIN db[e]
                  /\ \A f \in FieldSet(e) :
                        db'[e][id][f] = IF f \in DOMAIN d
                                        THEN Stored(e, f, d[f])
                                        ELSE db[e][id][f]]_vars

\* C4's case: an Update that supplied two fields, a price of 1.995 among
\* them, succeeded, and the row holds 2.00.
C4_PriceUpdated ==
    \E r \in Reqs :
        /\ req[r].op = "update"
        /\ req[r].pc = "release"
        /\ req[r].status = 200
        /\ Cardinality(DOMAIN req[r].data) = 2
        /\ "price" \in DOMAIN req[r].data
        /\ req[r].data["price"] = Some(1995)
        /\ db[req[r].ent][req[r].id]["price"] = Some(2000)

\* C5: a Get, an Update that supplies a field, or a Delete of an identifier
\* that is not stored changes no table at any of its steps and is answered
\* 404 with the entity's "not found" detail.
C5_AbsentIdNotFound ==
    [][\A r \in Reqs :
          (/\ req[r].pc \in {"body", "commit"}
           /\ req[r].op \in {"get", "update", "delete"}
           /\ req[r].op = "update" => DOMAIN req[r].data # {}
           /\ req[r].id \notin DOMAIN db[req[r].ent]
           /\ req'[r] # req[r])
          => /\ db' = db
             /\ req'[r].pc \in {"commit", "release"}
             /\ req'[r].pc = "release"
                   => /\ req'[r].status = 404
                      /\ req'[r].detail = NotFound(req[r].ent)]_vars

\* C5's case: beside a stored row, an Update that supplied a field for an
\* identifier that is not stored was answered 404.
C5_AbsentUpdateAnswered ==
    \E r \in Reqs :
        /\ req[r].op = "update"
        /\ req[r].pc = "release"
        /\ DOMAIN req[r].data # {}
        /\ req[r].id \notin DOMAIN db[req[r].ent]
        /\ DOMAIN db[req[r].ent] # {}
        /\ req[r].status = 404

\* The commit of a Create whose statement the server accepted.
CreateCommits(r) ==
    /\ req[r].op = "create"
    /\ req[r].pc = "commit"
    /\ req'[r].pc = "release"

\* The handler step of a Get of a stored identifier.
Fetches(r) ==
    /\ req[r].op = "get"
    /\ req[r].pc = "body"
    /\ req'[r].pc = "release"
    /\ req[r].id \in DOMAIN db[req[r].ent]

\* The one record a Get returns is the stored row under its identifier.
ReturnsStored(r) ==
    LET e == req[r].ent
        id == req[r].id
    IN  /\ req'[r].status = 200
        /\ req'[r].result =
              {[f \in FieldSet(e) \cup {IdColumn(e)} |->
                   IF f = IdColumn(e) THEN Some(id) ELSE db[e][id][f]]}

\* C6 (as the specification states it): a Create that violates no constraint
\* succeeds and returns an identifier that was not stored, under which it
\* stores a row whose fields equal the input (None for an optional field
\* left out); and a Get of a stored identifier returns the stored row, which
\* is that row until an Update or a Delete of it.
C6_CreateThenGet ==
    [][\A r \in Reqs :
          /\ CreateCommits(r) =>
                LET e == req[r].ent
                    id == req[r].lastrowid
                IN  /\ req'[r].status = 200
                    /\ req'[r].lastrowid = id
                    /\ id \notin DOMAIN db[e]
                    /\ id \in DOMAIN db'[e]
                    /\ \A f \in FieldSet(e) : db'[e][id][f] = req[r].data[f]
          /\ Fetches(r) => ReturnsStored(r)]_vars

\* C6 (amended): the same, the stored and returned price being the input
\* price rounded to two decimals.
C6_CreateThenGetRounded ==
    [][\A r \in Reqs :
          /\ CreateCommits(r) =>
                LET e == req[r].ent
                    id == req[r].lastrowid
                IN  /\ req'[r].status = 200
                    /\ req'[r].lastrowid = id
                    /\ id \notin DOMAIN db[e]
                    /\ id \in DOMAIN db'[e]
                    /\ \A f \in FieldSet(e) :
                          db'[e][id][f] = Stored(e, f, req[r].data[f])
          /\ Fetches(r) => ReturnsStored(r)]_vars

\* C6's case: a Get returned a product that was stored with a price of 2.00
\* and no description.
C6_ProductFetched ==
    \E r \in Reqs :
        /\ req[r].op = "get"
        /\ req[r].pc = "release"
        /\ req[r].ent = "products"
        /\ req[r].status = 200
        /\ \E rec \in req[r].result :
              /\ rec["product_id"] = Some(req[r].id)
              /\ rec["price"] = Some(2000)
              /\ rec["description"] = None

\* C7: no two stored rows of a table share the value of its unique field;
\* and a Create whose unique value a stored row carries is answered 400 with
\* the server's duplicate-entry error by the step that executes its INSERT,
\* which changes no table and leaves nothing to commit.
C7_DuplicateCreateRejected ==
    /\ [](\A e \in Entities : \A i, j \in DOMAIN db[e] :
             i # j => db[e][i][UniqueField(e)] # db[e][j][UniqueField(e)])
    /\ [][\A r \in Reqs :
             (/\ req[r].op = "create"
              /\ req[r].pc = "body"
              /\ req'[r] # req[r]
              /\ \E j \in DOMAIN db[req[r].ent] :
                    db[req[r].ent][j][UniqueField(req[r].ent)]
                        = req[r].data[UniqueField(req[r].ent)])
             => /\ req'[r].pc = "release"
                /\ req'[r].status = 400
                /\ req'[r].detail = "Database error: 1062 Duplicate entry"
                /\ db' = db
                /\ tx'[req[r].conn] = NoTx]_vars

\* C7's case: a Create was refused while a stored row carries its unique
\* value.
C7_DuplicateRefused ==
    \E r \in Reqs :
        /\ req[r].op = "create"
        /\ req[r].pc = "release"
        /\ req[r].status = 400
        /\ \E j \in DOMAIN db[req[r].ent] :
              db[req[r].ent][j][UniqueField(req[r].ent)]
                  = req[r].data[UniqueField(req[r].ent)]

\* The requests whose INSERT the server accepted.
Inserted == {r \in Reqs : req[r].op = "create" /\ req[r].lastrowid # 0}

\* C8: two Creates in flight at once on one table hold distinct identifiers;
\* a Create whose unique value no stored row carries has its INSERT accepted
\* under an identifier that is not stored; and its commit stores its row
\* under that identifier, changes no other row, and answers 200.
C8_ConcurrentCreates ==
    /\ [](\A r1, r2 \in Inserted :
             (r1 # r2 /\ req[r1].ent = req[r2].ent)
                 => req[r1].lastrowid # req[r2].lastrowid)
    /\ [][\A r \in Reqs :
             LET e == req[r].ent
             IN  /\ (/\ req[r].op = "create"
                     /\ req[r].pc = "body"
                     /\ req'[r] # req[r]
                     /\ \A j \in DOMAIN db[e] :
                           db[e][j][UniqueField(e)] # req[r].data[UniqueField(e)])
                    => /\ req'[r].pc = "commit"
                       /\ req'[r].lastrowid \in Ids \ DOMAIN db[e]
                 /\ CreateCommits(r)
                    => /\ req'[r].status = 200
                       /\ DOMAIN db'[e] = DOMAIN db[e] \cup {req[r].lastrowid}
                       /\ \A j \in DOMAIN db[e] \ {req[r].lastrowid} :
                             db'[e][j] = db[e][j]
                       /\ \A f \in FieldSet(e) :
                             db'[e][req[r].lastrowid][f]
                                 = Stored(e, f, req[r].data[f])]_vars

\* C8's case: two Creates on one table, in flight at once, both succeeded
\* and their two rows are stored.
C8_BothCreated ==
    \E r1, r2 \in Inserted :
        /\ r1 # r2
        /\ req[r1].ent = req[r2].ent
        /\ req[r1].status = 200
        /\ req[r2].status = 200
        /\ {req[r1].lastrowid, req[r2].lastrowid} \subseteq DOMAIN db[req[r1].ent]

\* C9 (as the specification states it): no failure of a statement or of a
\* commit leaves a handler unhandled (a handler that ran has built its
\* statement).
C9_NoUnhandledFault ==
    \A r \in Reqs :
        (req[r].pc = "release" /\ req[r].query # NoQuery) => ~req[r].unhandled

\* C10: a request that waits for its connection can always take its
\* acquisition step, whatever the pool holds; the step either hands it a
\* connection that was available, or fails it with a 5xx status, no
\* connection held, and the pool and the borrowed connections as they were;
\* so the request does not wait forever: whenever a request waits for its
\* connection (one does at a time), a state follows in which none waits,
\* and the waiting request left for its handler or failed.
C10_AcquisitionNeverHangs ==
    /\ [](\A r \in Reqs : req[r].pc = "acquire" => ENABLED Acquire(r))
    /\ [][\A r \in Reqs :
             (req[r].pc = "acquire" /\ req'[r] # req[r])
             => \/ /\ req'[r].pc = "cursor"
                   /\ req'[r].conn \in pool \ pool'
                \/ /\ req'[r].pc = "failed"
                   /\ req'[r].status \in 500..599
                   /\ req'[r].conn = 0
                   /\ pool' = pool
                   /\ Borrowed' = Borrowed]_vars
    /\ Receiving ~> ~Receiving

\* C10's case: a request failed for want of a connection while the five
\* connections are held.
C10_FailedWhileExhausted ==
    \E r \in Reqs :
        /\ req[r].pc = "failed"
        /\ req[r].status = 500
        /\ pool = {}
        /\ Cardinality(Holding) = pool_size

\* C11: the identifiers a table has handed out lie below its counter, which
\* never goes back: a Create returns the counter's value, which no earlier
\* Create returned, whether or not the row it named is still stored; and an
\* Update keeps the stored identifiers as they are and never sets the
\* identifier column.
C11_IdentifiersStable ==
    /\ [](\A e \in Entities :
             /\ \A id \in DOMAIN db[e] : id < nextId[e]
             /\ \A r \in Inserted : req[r].ent = e => req[r].lastrowid < nextId[e])
    /\ [][\A e \in Entities :
             /\ nextId'[e] >= nextId[e]
             /\ \A r \in Reqs :
                   /\ (req[r].ent = e /\ req[r].op = "create"
                        /\ req[r].lastrowid = 0 /\ req'[r].lastrowid # 0)
                      => req'[r].lastrowid = nextId[e]
                   /\ (req[r].ent = e /\ req[r].op = "update" /\ req'[r] # req[r])
                      => /\ DOMAIN db'[e] = DOMAIN db[e]
                         /\ req'[r].query.kind = "UPDATE"
                               => IdColumn(e) \notin Range(req'[r].query.columns)]_vars

\* C11's case: after the row of identifier 1 was deleted, a Create returned
\* identifier 2 and its row is the only one stored.
C11_CreatedAfterDelete ==
    \E r \in Inserted :
        /\ req[r].pc = "release"
        /\ req[r].status = 200
        /\ req[r].lastrowid = 2
        /\ DOMAIN db[req[r].ent] = {2}

\* C12: a request is in flight only in a serving process whose pool was
\* constructed; a startup that could not construct the pool ends in a
\* process that exited, which no request ever reaches.
C12_NoServingWithoutPool ==
    /\ \A r \in Reqs :
          req[r].pc # "idle" => (process.phase = "serving" /\ process.db_pool)
    /\ ~process.db_pool => process.phase \in {"starting", "exited"}

\* C12's case: the pool could not be constructed and the process exited.
C12_ExitedWithoutPool == process.phase = "exited" /\ ~process.db_pool

\* C13 (as the specification states it): an Update is answered "not found"
\* only when its identifier is not stored; an Update of a stored row that
\* violates no constraint is answered with success, whatever values it
\* supplies, the stored ones included.
C13_NotFoundOnlyWhenAbsent ==
    [][\A r \in Reqs :
          (/\ req[r].op = "update"
           /\ req[r].pc = "commit"
           /\ req'[r].pc = "release"
           /\ connected[req[r].conn])
          => /\ req'[r].status = 404 => req[r].id \notin DOMAIN db[req[r].ent]
             /\ req[r].id \in DOMAIN db[req[r].ent] => req'[r].status = 200]_vars

\* C14: in every state the connections out of the pool, and the requests
\* that hold one, number at most pool_size (5).
C14_BorrowedWithinPoolSize ==
    /\ Cardinality(Borrowed) <= pool_size
    /\ Cardinality(Holding) <= pool_size
    /\ Cardinality(Conns \ pool) <= pool_size
    /\ pool \subseteq Conns

\* C14's case: the five connections are out and a sixth request is about to
\* ask the pool for one.
C14_SixthAsks ==
    /\ Cardinality(Borrowed) = pool_size
    /\ \E r \in Reqs : req[r].pc = "acquire"

\* An Update that supplies None for a column declared NOT NULL.
NullForRequired(ent, d) == \E f \in DOMAIN d \cap NotNull(ent) : d[f] = None

\* An Update that supplies, for the UNIQUE column, the value of another
\* stored row.
TakesAnothersKey(ent, id, d) ==
    /\ UniqueField(ent) \in DOMAIN d
    /\ \E j \in DOMAIN db[ent] : j # id /\ db[ent][j][UniqueField(ent)] = d[UniqueField(ent)]

\* C15: an Update of a stored row that supplies another row's email or name,
\* or None for a required column, is answered 400 with the server's cause in
\* the detail by the step that executes its statement: it is answered
\* neither with success nor with "not found", and no stored row changes.
C15_ViolatingUpdateRefused ==
    [][\A r \in Reqs :
          LET e == req[r].ent
              id == req[r].id
              d == req[r].data
          IN  (/\ req[r].op = "update"
               /\ req[r].pc = "body"
               /\ connected[req[r].conn]
               /\ id \in DOMAIN db[e]
               /\ NullForRequired(e, d) \/ TakesAnothersKey(e, id, d)
               /\ req'[r] # req[r])
              => /\ req'[r].pc = "release"
                 /\ req'[r].status = 400
                 /\ ~req'[r].unhandled
                 /\ req'[r].detail = IF NullForRequired(e, d)
                                     THEN "Database error: 1048 Column cannot be null"
                                     ELSE "Database error: 1062 Duplicate entry"
                 /\ db' = db
                 /\ tx'[req[r].conn] = NoTx]_vars

\* C15's case: beside two stored rows, an Update of one that supplied the
\* other's unique value was answered 400 with the duplicate entry as cause.
C15_AnothersKeyRefused ==
    \E r \in Reqs :
        /\ req[r].op = "update"
        /\ req[r].pc = "release"
        /\ req[r].status = 400
        /\ req[r].id \in DOMAIN db[req[r].ent]
        /\ TakesAnothersKey(req[r].ent, req[r].id, req[r].data)
        /\ req[r].detail = "Database error: 1062 Duplicate entry"

\* An identifier that was assigned and is neither stored nor about to be
\* (by an INSERT that is not committed yet): its row was deleted, or its
\* INSERT failed.
Deleted(ent, id) ==
    /\ id < nextId[ent]
    /\ id \notin DOMAIN db[ent]
    /\ \A c \in Conns : tx[c].kind = "put" => (tx[c].ent # ent \/ tx[c].id # id)

\* The commit of a Delete of a stored row answers with success and removes
\* that row and no other.
DeleteRemovesItsRow ==
    \A r \in Reqs :
        LET e == req[r].ent
            id == req[r].id
        IN  (/\ req[r].op = "delete"
             /\ req[r].pc = "commit"
             /\ req'[r].pc = "release"
             /\ id \in DOMAIN db[e])
            => /\ req'[r].status = 200
               /\ req'[r].detail = "deleted successfully"
               /\ db' = [db EXCEPT ![e] = [j \in DOMAIN db[e] \ {id} |-> db[e][j]]]

\* A deleted identifier is never stored again.
DeletedForGood == \A e \in Entities : \A id \in Ids : Deleted(e, id) => Deleted(e, id)'

\* A List returns the stored rows only.
ListsStoredRows ==
    \A r \in Reqs :
        (req[r].op = "list" /\ req[r].pc = "body" /\ req'[r].pc = "release")
        => {rec[IdColumn(req[r].ent)][1] : rec \in req'[r].result} = DOMAIN db[req[r].ent]

\* The handler of request r, a Get, an Update or a Delete of a deleted
\* identifier, answers in this step.
AnswersForDeleted(r) ==
    /\ req[r].op \in {"get", "update", "delete"}
    /\ req[r].pc \in {"body", "commit"}
    /\ req'[r].pc = "release"
    /\ Deleted(req[r].ent, req[r].id)

\* C16 (as the specification states it): the commit of a Delete of a stored
\* row answers with success and removes that row and no other; a deleted
\* identifier is never stored again; every Get, Update and Delete of a
\* deleted identifier is answered 404, and a List returns the stored rows
\* only.
C16_DeletedStaysDeleted ==
    /\ [][DeleteRemovesItsRow]_vars
    /\ [][DeletedForGood]_vars
    /\ [][ListsStoredRows]_vars
    /\ [][\A r \in Reqs :
             AnswersForDeleted(r)
             => /\ req'[r].status = 404
                /\ req'[r].detail = NotFound(req[r].ent)]_vars

\* C16 (amended): the commit of a Delete of a stored row answers with
\* success and removes that row and no other; a deleted identifier is never
\* stored again; a Get, a Delete, and an Update that supplies a field, of a
\* deleted identifier is answered 404, an Update that supplies no field is
\* answered 400 "No fields to update", none of them changing a table; and a
\* List returns the stored rows only.
C16_DeletedStaysDeletedOrRejected ==
    /\ [][DeleteRemovesItsRow]_vars
    /\ [][DeletedForGood]_vars
    /\ [][ListsStoredRows]_vars
    /\ [][\A r \in Reqs :
             AnswersForDeleted(r)
             => /\ db' = db
                /\ IF req[r].op = "update"
                      /\ DOMAIN model_dump(req[r].ent, req[r].data) = {}
                   THEN /\ req'[r].status = 400
                        /\ req'[r].detail = "No fields to update"
                   ELSE /\ req'[r].status = 404
                        /\ req'[r].detail = NotFound(req[r].ent)]_vars

\* C16's case: the first row was deleted (the first INSERT into a table
\* cannot fail), a second one is stored, and an Update of the first
\* identifier that supplied no field was answered 400.
C16_EmptyUpdateOfDeleted ==
    \E r \in Reqs :
        /\ req[r].op = "update"
        /\ req[r].pc = "release"
        /\ DOMAIN req[r].data = {}
        /\ req[r].status = 400
        /\ req[r].id = 1
        /\ Deleted(req[r].ent, 1)
        /\ DOMAIN db[req[r].ent] = {2}

\* An Update of a stored row that was answered with success and whose
\* response is on its way.
Updated(r) == req[r].op = "update" /\ req[r].pc = "release" /\ req[r].status = 200

\* C17: when an Update commits with success while another Update of the
\* same row, in flight at the same time, was the last to commit with success
\* before it (the row holds what that one supplied), the row afterwards
\* holds, field by field, the value of the Update committing now if it
\* supplied the field, else the value of the one that committed before if
\* that one supplied it, else the value it held.
C17_LastCommittedWins ==
    [][\A r, r2 \in Reqs :
          LET e == req[r].ent
              id == req[r].id
              d == req[r].data
              d2 == req[r2].data
          IN  (/\ r # r2
               /\ UpdateCommits(r)
               /\ req'[r].status = 200
               /\ Updated(r2)
               /\ req[r2].ent = e
               /\ req[r2].id = id
               /\ \A f \in DOMAIN d2 : db[e][id][f] = Stored(e, f, d2[f]))
              => /\ DOMAIN db'[e] = DOMAIN db[e]
                 /\ \A f \in FieldSet(e) :
                       db'[e][id][f] = IF f \in DOMAIN d THEN Stored(e, f, d[f])
                                       ELSE IF f \in DOMAIN d2 THEN Stored(e, f, d2[f])
                                       ELSE db[e][id][f]]_vars

\* C17's case: two Updates of one row, in flight at once, both succeeded;
\* they supplied different values for one field, and one of them supplied a
\* field the other did not.
C17_BothUpdated ==
    \E r, r2 \in Reqs :
        /\ r # r2
        /\ Updated(r)
        /\ Updated(r2)
        /\ req[r].ent = req[r2].ent
        /\ req[r].id = req[r2].id
        /\ \E f \in DOMAIN req[r].data \cap DOMAIN req[r2].data :
              req[r].data[f] # req[r2].data[f]
        /\ DOMAIN req[r].data # DOMAIN req[r2].data

\* C18: every UPDATE statement an Update builds sets exactly the declared
\* fields its body supplied: each column of the SET list is one of the
\* entity's fields, never the identifier column nor another key of the
\* body, and the one parameter more than columns is the identifier of
\* the WHERE clause.
C18_ColumnsAreDeclaredFields ==
    \A r \in Reqs :
        (req[r].op = "update" /\ req[r].query.kind = "UPDATE")
        => LET e == req[r].ent
               columns == Range(req[r].query.columns)
           IN  /\ columns \subseteq FieldSet(e)
               /\ IdColumn(e) \notin columns
               /\ columns = DOMAIN req[r].data \cap FieldSet(e)
               /\ columns # {}
               /\ req[r].query.table = e
               /\ Len(req[r].query.params) = Len(req[r].query.columns) + 1

\* C18's case: an Update whose body carried the identifier column as a key,
\* beside a declared field, had its statement executed.
C18_StrayKeyDropped ==
    \E r \in Reqs :
        /\ req[r].op = "update"
        /\ req[r].query.kind = "UPDATE"
        /\ IdColumn(req[r].ent) \in DOMAIN req[r].data
        /\ req[r].status = 200

\* The row a write targets: the one its INSERT was given an identifier for,
\* or the one its path names.
Target(r) == IF req[r].op = "create" THEN req[r].lastrowid ELSE req[r].id

\* C19: a step of a List or of a Get changes no table; and a step that
\* changes a table is the commit of a Create, an Update or a Delete, which
\* leaves the other table as it was and, in its own table, every row but
\* the one it targets.
C19_OnlyTargetRowChanges ==
    [][/\ \A r \in Reqs :
             (req[r].op \in {"list", "get"} /\ req'[r] # req[r]) => db' = db
       /\ db' # db
             => \E r \in Reqs :
                   LET e == req[r].ent
                   IN  /\ req[r].op \in {"create", "update", "delete"}
                       /\ req[r].pc = "commit"
                       /\ req'[r].pc = "release"
                       /\ db'[Other(e)] = db[Other(e)]
                       /\ \A j \in (DOMAIN db[e] \cup DOMAIN db'[e]) \ {Target(r)} :
                             /\ j \in DOMAIN db[e] \cap DOMAIN db'[e]
                             /\ db'[e][j] = db[e][j]]_vars

\* C19's case: a Delete succeeded while another row of its table and a row
\* of the other table are stored.
C19_OthersKept ==
    \E r \in Reqs :
        /\ req[r].op = "delete"
        /\ req[r].pc = "release"
        /\ req[r].status = 200
        /\ DOMAIN db[req[r].ent] # {}
        /\ DOMAIN db[Other(req[r].ent)] # {}

\* A write that was answered with success and whose response is on its way.
Reported(w) ==
    /\ req[w].op \in {"create", "update", "delete"}
    /\ req[w].pc = "release"
    /\ req[w].status = 200

\* C20: a request whose handler has answered, and a connection in the pool,
\* hold no uncommitted write; the step that answers a write with success is
\* the commit that moves its pending write into the table; and a Get that is
\* served, on another connection, after a write of its row was answered
\* with success returns the row as that write left it: the created row, the
\* updated values, or 404 for a deleted row.
C20_CommittedBeforeReported ==
    /\ [](/\ \A c \in pool : tx[c] = NoTx
          /\ \A r \in Reqs : req[r].pc = "release" => tx[req[r].conn] = NoTx)
    /\ [][\A w \in Reqs :
             (~Reported(w) /\ Reported(w)')
             => /\ tx[req[w].conn] # NoTx
                /\ db'[req[w].ent] = Committed(db[req[w].ent], tx[req[w].conn])
                /\ db'[req[w].ent] # db[req[w].ent]
                /\ tx'[req[w].conn] = NoTx]_vars
    /\ [][\A w, r \in Reqs :
             LET e == req[w].ent
                 id == Target(w)
             IN  (/\ Reported(w)
                  /\ req[r].op = "get"
                  /\ req[r].pc = "body"
                  /\ req'[r].pc = "release"
                  /\ req[r].ent = e
                  /\ req[r].id = id)
                 => /\ req[r].conn # req[w].conn
                    /\ IF req[w].op = "delete"
                       THEN req'[r].status = 404
                       ELSE /\ req'[r].status = 200
                            /\ \E rec \in req'[r].result :
                                  /\ rec[IdColumn(e)] = Some(id)
                                  /\ \A f \in DOMAIN req[w].data \cap FieldSet(e) :
                                        rec[f] = Stored(e, f, req[w].data[f])]_vars

\* C20's case: an Update was answered with success and, its connection not
\* yet back in the pool, a Get of its row served on another connection
\* returned the value it wrote.
C20_SeenOnOtherConnection ==
    \E w, r \in Reqs :
        /\ Reported(w)
        /\ req[w].op = "update"
        /\ req[r].op = "get"
        /\ req[r].pc = "release"
        /\ req[r].status = 200
        /\ req[r].ent = req[w].ent
        /\ req[r].id = req[w].id
        /\ req[r].conn # req[w].conn
        /\ \E rec \in req[r].result :
              \A f \in DOMAIN req[w].data : rec[f] = req[w].data[f]

====
